---- MODULE Spec2Model ----
(***************************************************************************)
(* Model of the Dockerfile generator (dockerfile-generator.js): one run of *)
(* the script checks its argument, classifies the application directory   *)
(* (detectAppType) and writes Dockerfile, .dockerignore and               *)
(* docker-compose.yml.  Strings the code inspects character by character   *)
(* (file names, script commands, the directory base name) are sequences    *)
(* of one-character strings; a generated document is a sequence of lines,  *)
(* each line <<literal prefix, substituted characters, literal suffix>>.   *)
(***************************************************************************)
EXTENDS Integers, Sequences, FiniteSets, TLC

(* ---------------------------------------------------------------------- *)
(* Bounds of the model                                                     *)
(* ---------------------------------------------------------------------- *)
MaxDepKeys == 1
MaxScripts == 2
MaxEntries == 2
MaxNameLen == 2
MaxRuns == 2

(* ---------------------------------------------------------------------- *)
(* Optional values (undefined / a value)                                   *)
(* ---------------------------------------------------------------------- *)
NONE == <<>>

Some(x) == <<x>>

IsSome(o) == Len(o) = 1

Get(o) == o[1]

(* ---------------------------------------------------------------------- *)
(* Characters                                                              *)
(* ---------------------------------------------------------------------- *)
Digit == {"0", "1", "2", "3", "4", "5", "6", "7", "8", "9"}

UpperAZ == <<"A", "B", "C", "D", "E", "F", "G", "H", "I", "J", "K", "L", "M", "N", "O", "P", "Q", "R", "S", "T", "U", "V", "W", "X", "Y", "Z">>

LowerAZ == <<"a", "b", "c", "d", "e", "f", "g", "h", "i", "j", "k", "l", "m", "n", "o", "p", "q", "r", "s", "t", "u", "v", "w", "x", "y", "z">>

\* U+0130 (capital I with dot above) and U+0307 (combining dot above)
CapIDot == "U+0130"

CombDot == "U+0307"

\* String.prototype.toLowerCase on one UTF-16 code unit: ASCII capitals map to
\* their small letters, U+0130 maps to the two code units "i" U+0307
\* (Unicode SpecialCasing), every other modelled character is unchanged.
toLowerCaseChar(c) ==
  IF \E i \in 1..26 : UpperAZ[i] = c
    THEN <<LowerAZ[CHOOSE i \in 1..26 : UpperAZ[i] = c]>>
    ELSE IF c = CapIDot THEN <<"i", CombDot>> ELSE <<c>>

RECURSIVE toLowerCase(_)
toLowerCase(s) ==
  IF s = <<>> THEN <<>> ELSE toLowerCaseChar(Head(s)) \o toLowerCase(Tail(s))

\* the character class [a-z0-9]
IsAZ09(c) == (\E i \in 1..26 : LowerAZ[i] = c) \/ c \in Digit

\* variant: runs of characters outside [a-z0-9] collapse to one '-'
RECURSIVE replaceNonAlnum_collapse(_)
replaceNonAlnum_collapse(s) ==
  IF s = <<>> THEN <<>>
  ELSE IF IsAZ09(Head(s)) THEN <<Head(s)>> \o replaceNonAlnum_collapse(Tail(s))
  ELSE IF Len(s) > 1 /\ ~IsAZ09(s[2]) THEN replaceNonAlnum_collapse(Tail(s))
  ELSE <<"-">> \o replaceNonAlnum_collapse(Tail(s))

\* .replace(/[^a-z0-9]/g, '-')
replaceNonAlnum(s) == [i \in 1..Len(s) |-> IF IsAZ09(s[i]) THEN s[i] ELSE "-"]

(* ---------------------------------------------------------------------- *)
(* String functions used by the generator                                  *)
(* ---------------------------------------------------------------------- *)
\* String.prototype.endsWith
endsWith(file, suffix) ==
  /\ Len(file) >= Len(suffix)
  /\ SubSeq(file, Len(file) - Len(suffix) + 1, Len(file)) = suffix

\* Array.prototype.join over strings
RECURSIVE join(_, _)
join(strs, sep) ==
  IF strs = <<>> THEN <<>>
  ELSE IF Len(strs) = 1 THEN strs[1]
  ELSE strs[1] \o sep \o join(Tail(strs), sep)

\* variant: the whole command line
splitFirst_whole(s) == s

\* s.split(' ')[0]: the characters before the first space
splitFirst(s) ==
  IF \E i \in 1..Len(s) : s[i] = " "
    THEN SubSeq(s, 1, (CHOOSE i \in 1..Len(s) :
                         /\ s[i] = " "
                         /\ \A j \in 1..(i - 1) : s[j] # " ") - 1)
    ELSE s

PortEq == <<"P", "O", "R", "T", "=">>

\* positions where /PORT=(\d+)/ can match
PortMatchAt(s, i) ==
  /\ i + 5 <= Len(s)
  /\ SubSeq(s, i, i + 4) = PortEq
  /\ s[i + 5] \in Digit

\* s.match(/PORT=(\d+)/): NONE, or Some(capture group 1) of the leftmost match,
\* the digits taken greedily
portMatch(s) ==
  IF \E i \in 1..Len(s) : PortMatchAt(s, i)
    THEN LET i == CHOOSE i \in 1..Len(s) :
                    /\ PortMatchAt(s, i)
                    /\ \A j \in 1..(i - 1) : ~PortMatchAt(s, j)
             e == CHOOSE e \in (i + 5)..Len(s) :
                    /\ \A k \in (i + 5)..e : s[k] \in Digit
                    /\ (e = Len(s) \/ s[e + 1] \notin Digit)
         IN  Some(SubSeq(s, i + 5, e))
    ELSE NONE

(* ---------------------------------------------------------------------- *)
(* JSON values of package.json                                             *)
(* ---------------------------------------------------------------------- *)
\* a script value: a JSON string or a JSON number, s its characters
Str(s) == [t |-> "str", s |-> s]

Num(s) == [t |-> "num", s |-> s]

\* JavaScript truthiness of a script value: "" and 0 are falsy
Truthy(v) == IF v.t = "str" THEN v.s # <<>> ELSE v.s # <<"0">>

\* truthiness of a dependency version string
TruthyVersion(v) == v # ""

EmptyMap == [k \in {} |-> ""]

\* { ...o }: spreading undefined gives no properties
spread(o) == IF IsSome(o) THEN Get(o) ELSE EmptyMap

\* { ...a, ...b }: properties of b override those of a
mergeSpread(a, b) ==
  [k \in (DOMAIN spread(a)) \cup (DOMAIN spread(b)) |->
     IF k \in DOMAIN spread(b) THEN spread(b)[k] ELSE spread(a)[k]]

\* deps.key in a condition: undefined (falsy) when the key is missing
depTruthy(deps, key) == key \in DOMAIN deps /\ TruthyVersion(deps[key])

\* packageJson.scripts?.name: scripts is NONE or Some(sequence of <<name, value>>)
scriptProp(scripts, name) ==
  IF IsSome(scripts) /\ \E i \in 1..Len(Get(scripts)) : Get(scripts)[i][1] = name
    THEN Some(Get(scripts)[CHOOSE i \in 1..Len(Get(scripts)) :
                             Get(scripts)[i][1] = name][2])
    ELSE NONE

\* a || 'literal'
orDefault(o, lit) == IF IsSome(o) /\ Truthy(Get(o)) THEN Get(o) ELSE Str(lit)

\* Object.values(scripts), each value converted to a string as join does
scriptValues(entries) == [i \in 1..Len(entries) |-> entries[i][2].s]

(* ---------------------------------------------------------------------- *)
(* Directory entries                                                       *)
(* ---------------------------------------------------------------------- *)
PackageJson == <<"p", "a", "c", "k", "a", "g", "e", ".", "j", "s", "o", "n">>

RequirementsTxt == <<"r", "e", "q", "u", "i", "r", "e", "m", "e", "n", "t", "s", ".", "t", "x", "t">>

DotPy == <<".", "p", "y">>

DockerfileName == <<"D", "o", "c", "k", "e", "r", "f", "i", "l", "e">>

DockerignoreName == <<".", "d", "o", "c", "k", "e", "r", "i", "g", "n", "o", "r", "e">>

ComposeName == <<"d", "o", "c", "k", "e", "r", "-", "c", "o", "m", "p", "o", "s", "e", ".", "y", "m", "l">>

OutputNames == {DockerfileName, DockerignoreName, ComposeName}

\* contents of an entry: an opaque file, a sub-directory, a package.json that is
\* not JSON, the JSON text null, a JSON object, or a generated document
Raw == [k |-> "raw"]

SubDir == [k |-> "dir"]

BadJson == [k |-> "badjson"]

JsonNull == [k |-> "jsonnull"]

JsonObj(pj) == [k |-> "json", v |-> pj]

DocFile(d) == [k |-> "doc", doc |-> d]

(* ---------------------------------------------------------------------- *)
(* detectAppType                                                           *)
(* ---------------------------------------------------------------------- *)
Ok(r) == [ok |-> TRUE, val |-> r]

Throw(e) == [ok |-> FALSE, err |-> e]

\* variant: no default for a manifest without a recognised framework
classifyManifest_noDefault(packageJson) ==
  LET deps == mergeSpread(packageJson.dependencies, packageJson.devDependencies)
  IN  IF depTruthy(deps, "react")
        THEN [type |-> "react", packageJson |-> Some(packageJson)]
      ELSE IF \/ depTruthy(deps, "express") \/ depTruthy(deps, "koa")
              \/ depTruthy(deps, "hapi") \/ depTruthy(deps, "fastify")
        THEN [type |-> "node", packageJson |-> Some(packageJson)]
      ELSE [type |-> "generic", packageJson |-> Some(packageJson)]

\* classification of a parsed manifest (lines 33-54)
classifyManifest(packageJson) ==
  LET deps == mergeSpread(packageJson.dependencies, packageJson.devDependencies)
  IN  IF depTruthy(deps, "react")
        THEN [type |-> "react", packageJson |-> Some(packageJson)]
      ELSE IF \/ depTruthy(deps, "express") \/ depTruthy(deps, "koa")
              \/ depTruthy(deps, "hapi") \/ depTruthy(deps, "fastify")
        THEN [type |-> "node", packageJson |-> Some(packageJson)]
      ELSE [type |-> "node", packageJson |-> Some(packageJson)]

\* variant: suffix "py" without the dot
hasPythonFiles_noDot(d) == \E file \in DOMAIN d : endsWith(file, <<"p", "y">>)

hasPythonFiles(d) == \E file \in DOMAIN d : endsWith(file, DotPy)

\* variant: requirements.txt is not looked for
hasRequirements_never(d) == FALSE

hasRequirements(d) == RequirementsTxt \in DOMAIN d

\* variant: the Python heuristic is consulted before the manifest
detectAppType_pythonFirst(d) ==
  IF hasPythonFiles(d) \/ hasRequirements(d)
    THEN Ok([type |-> "python", packageJson |-> NONE])
  ELSE IF PackageJson \in DOMAIN d
    THEN CASE d[PackageJson].k = "json" -> Ok(classifyManifest(d[PackageJson].v))
           [] d[PackageJson].k = "badjson" -> Throw("SyntaxError")
           [] d[PackageJson].k = "jsonnull" -> Throw("TypeError")
           [] OTHER -> Throw("EISDIR")
    ELSE Ok([type |-> "generic", packageJson |-> NONE])

\* variant: a manifest that cannot be used is ignored
detectAppType_swallow(d) ==
  IF PackageJson \in DOMAIN d /\ d[PackageJson].k = "json"
    THEN Ok(classifyManifest(d[PackageJson].v))
    ELSE IF hasPythonFiles(d) \/ hasRequirements(d)
           THEN Ok([type |-> "python", packageJson |-> NONE])
           ELSE Ok([type |-> "generic", packageJson |-> NONE])

\* detectAppType on directory d: the result, or the exception thrown by
\* readFileSync (package.json is a directory), JSON.parse, or the property
\* access on null
detectAppType(d) ==
  IF PackageJson \in DOMAIN d
    THEN CASE d[PackageJson].k = "json" -> Ok(classifyManifest(d[PackageJson].v))
           [] d[PackageJson].k = "badjson" -> Throw("SyntaxError")
           [] d[PackageJson].k = "jsonnull" -> Throw("TypeError")
           [] OTHER -> Throw("EISDIR")
    ELSE IF hasPythonFiles(d) \/ hasRequirements(d)
           THEN Ok([type |-> "python", packageJson |-> NONE])
           ELSE Ok([type |-> "generic", packageJson |-> NONE])

(* ---------------------------------------------------------------------- *)
(* Documents                                                               *)
(* ---------------------------------------------------------------------- *)
\* a literal line, and a line with substituted characters
L(s) == <<s, <<>>, "">>

P(pre, chars, post) == <<pre, chars, post>>

DefaultReactBuild == <<"r", "e", "a", "c", "t", "-", "s", "c", "r", "i", "p", "t", "s", " ", "b", "u", "i", "l", "d">>

DefaultNodeStart == <<"n", "o", "d", "e", " ", "s", "e", "r", "v", "e", "r", ".", "j", "s">>

DefaultPort == <<"3", "0", "0", "0">>

ReactPort == <<"8", "0">>

PythonPort == <<"8", "0", "0", "0">>

generateReactDockerfile(appType) ==
  LET buildScript ==
        orDefault(scriptProp(Get(appType.packageJson).scripts, "build"),
                  DefaultReactBuild)
  IN  IF buildScript.t # "str" THEN Throw("TypeError")
      ELSE Ok(<<
        L("# Multi-stage build for React application"),
        L("FROM node:16-alpine AS build"),
        L(""),
        L("# Set working directory"),
        L("WORKDIR /app"),
        L(""),
        L("# Copy package.json and package-lock.json"),
        L("COPY package*.json ./"),
        L(""),
        L("# Install dependencies"),
        L("RUN npm ci"),
        L(""),
        L("# Copy the rest of the code"),
        L("COPY . ."),
        L(""),
        L("# Build the application"),
        P("RUN npm run ", splitFirst(buildScript.s), ""),
        L(""),
        L("# Production stage"),
        L("FROM nginx:alpine AS production"),
        L(""),
        L("# Copy build files from previous stage"),
        L("COPY --from=build /app/build /usr/share/nginx/html"),
        L(""),
        L("# Copy nginx configuration if it exists"),
        L("COPY nginx.conf /etc/nginx/conf.d/default.conf 2>/dev/null || :"),
        L(""),
        L("# Expose port"),
        P("EXPOSE ", ReactPort, ""),
        L(""),
        L("# Start Nginx"),
        L("CMD [\"nginx\", \"-g\", \"daemon off;\"]")
      >>)

\* variant: the scripts are scanned only when scripts.start exists
nodePort_startOnly(packageJson) ==
  IF IsSome(packageJson.scripts) /\ IsSome(scriptProp(packageJson.scripts, "start"))
    THEN LET m == portMatch(join(scriptValues(Get(packageJson.scripts)), <<" ">>))
         IN  IF IsSome(m) THEN Get(m) ELSE DefaultPort
    ELSE DefaultPort

\* the port found in the scripts (lines 141-150)
nodePort(packageJson) ==
  IF IsSome(packageJson.scripts)
    THEN LET m == portMatch(join(scriptValues(Get(packageJson.scripts)), <<" ">>))
         IN  IF IsSome(m) THEN Get(m) ELSE DefaultPort
    ELSE DefaultPort

generateNodeDockerfile(appType) ==
  LET startScript ==
        orDefault(scriptProp(Get(appType.packageJson).scripts, "start"),
                  DefaultNodeStart)
      port == nodePort(Get(appType.packageJson))
  IN  IF startScript.t # "str" THEN Throw("TypeError")
      ELSE Ok(<<
        L("# Dockerfile for Node.js application"),
        L("FROM node:16-alpine"),
        L(""),
        L("# Create app directory"),
        L("WORKDIR /app"),
        L(""),
        L("# Copy package.json and package-lock.json"),
        L("COPY package*.json ./"),
        L(""),
        L("# Install dependencies"),
        L("RUN npm ci"),
        L(""),
        L("# Copy the rest of the code"),
        L("COPY . ."),
        L(""),
        L("# Expose the port the app will run on"),
        P("EXPOSE ", port, ""),
        L(""),
        L("# Start the application"),
        P("CMD [\"npm\", \"run\", \"", splitFirst(startScript.s), "\"]")
      >>)

generatePythonDockerfile ==
  Ok(<<
    L("# Dockerfile for Python application"),
    L("FROM python:3.9-slim"),
    L(""),
    L("# Set working directory"),
    L("WORKDIR /app"),
    L(""),
    L("# Copy requirements"),
    L("COPY requirements.txt ."),
    L(""),
    L("# Install dependencies"),
    L("RUN pip install --no-cache-dir -r requirements.txt"),
    L(""),
    L("# Copy the rest of the code"),
    L("COPY . ."),
    L(""),
    L("# Expose port"),
    P("EXPOSE ", PythonPort, ""),
    L(""),
    L("# Start the application"),
    L("CMD [\"python\", \"app.py\"]")
  >>)

generateGenericDockerfile ==
  Ok(<<
    L("# Generic Dockerfile"),
    L("FROM ubuntu:20.04"),
    L(""),
    L("# Set working directory"),
    L("WORKDIR /app"),
    L(""),
    L("# Copy application files"),
    L("COPY . ."),
    L(""),
    L("# Install dependencies"),
    L("# RUN apt-get update && apt-get install -y some-package"),
    L(""),
    L("# Expose port"),
    L("# EXPOSE 8080"),
    L(""),
    L("# Start the application"),
    L("# CMD [\"./start.sh\"]")
  >>)

\* variant: the react case falls into the node case
generateDockerfile_reactAsNode(appType) ==
  CASE appType.type \in {"react", "node"} -> generateNodeDockerfile(appType)
    [] appType.type = "python" -> generatePythonDockerfile
    [] OTHER -> generateGenericDockerfile

generateDockerfile(appType) ==
  CASE appType.type = "react" -> generateReactDockerfile(appType)
    [] appType.type = "node" -> generateNodeDockerfile(appType)
    [] appType.type = "python" -> generatePythonDockerfile
    [] OTHER -> generateGenericDockerfile

IgnoreBaseline ==
  << L("# .dockerignore"), L(".git"), L(".gitignore"), L(".github"),
     L(".vscode"), L(".idea"), L("*.md"), L("!README.md") >>

IgnoreNodeBlock ==
  << L("node_modules"), L("npm-debug.log"), L("Dockerfile"),
     L(".dockerignore"), L("build"), L("dist"), L("coverage") >>

IgnorePythonBlock ==
  << L("__pycache__/"), L("*.py[cod]"), L("*$py.class"), L("*.so"),
     L(".Python"), L("env/"), L("build/"), L("develop-eggs/"), L("dist/"),
     L("downloads/"), L("eggs/"), L(".eggs/"), L("lib/"), L("lib64/"),
     L("parts/"), L("sdist/"), L("var/"), L("*.egg-info/"),
     L(".installed.cfg"), L("*.egg"), L("venv/"), L("ENV/") >>

\* variant: the react case label is missing
generateDockerignore_nodeOnly(appType) ==
  CASE appType.type = "node" -> IgnoreBaseline \o IgnoreNodeBlock
    [] appType.type = "python" -> IgnoreBaseline \o IgnorePythonBlock
    [] OTHER -> IgnoreBaseline

generateDockerignore(appType) ==
  CASE appType.type \in {"react", "node"} -> IgnoreBaseline \o IgnoreNodeBlock
    [] appType.type = "python" -> IgnoreBaseline \o IgnorePythonBlock
    [] OTHER -> IgnoreBaseline

\* path.basename of the resolved path: its last segment, "" for the root
basename(path) == IF path = <<>> THEN <<>> ELSE path[Len(path)]

\* the compose service name (line 304)
appName(path) == replaceNonAlnum(toLowerCase(basename(path)))

composePort(appType) ==
  IF appType.type = "react" THEN ReactPort
  ELSE IF appType.type = "python" THEN PythonPort
  ELSE DefaultPort

generateDockerCompose(appType, path) ==
  LET port == composePort(appType)
  IN  << L("version: '3'"),
         L("services:"),
         P("  ", appName(path), ":"),
         L("    build: ."),
         L("    ports:"),
         P("      - \"", port \o <<":">> \o port, "\""),
         L("    volumes:"),
         L("      - .:/app"),
         L("    # environment:"),
         L("    #   - NODE_ENV=development") >>

(* ---------------------------------------------------------------------- *)
(* path.resolve                                                            *)
(* ---------------------------------------------------------------------- *)
\* A path argument is absolute or relative to the working directory; its
\* segments are names ("." is the relative path with no segment).
AbsPath(segs) == [abs |-> TRUE, segs |-> segs]

RelPath(segs) == [abs |-> FALSE, segs |-> segs]

pathResolve(wd, p) == IF p.abs THEN p.segs ELSE wd \o p.segs

(* ---------------------------------------------------------------------- *)
(* Input domains                                                           *)
(* ---------------------------------------------------------------------- *)
SeqsUpTo(S, n) == UNION {[1..k -> S] : k \in 0..n}

DepKeys == {"react", "express", "koa", "hapi", "fastify", "lodash"}

\* "" is a valid npm version range (any version)
DepVals == {"^1.0.0", ""}

DepMaps ==
  {NONE} \cup
  {Some(m) : m \in UNION {[K -> DepVals] :
                            K \in {K \in SUBSET DepKeys : Cardinality(K) <= MaxDepKeys}}}

ScriptNames == {"start", "build", "dev"}

CmdNodeY == <<"n", "o", "d", "e", " ", "y", ".", "j", "s">>

CmdPort4000 == <<"P", "O", "R", "T", "=", "4", "0", "0", "0", " ", "n", "o", "d", "e", " ", "x", ".", "j", "s">>

CmdNodemon == <<"n", "o", "d", "e", "m", "o", "n", " ", "-", "-", "w", "a", "t", "c", "h", " ", "s", "r", "c", " ", "i", "n", "d", "e", "x", ".", "j", "s">>

CmdLeadingSpace == <<" ", "n", "o", "d", "e", " ", "x", ".", "j", "s">>

CmdTab == <<"n", "o", "d", "e", "\t", "x", ".", "j", "s">>

CmdPort40 == <<"P", "O", "R", "T", "=", "4", "0">>

Cmd00 == <<"0", "0">>

CmdLowerPort == <<"p", "o", "r", "t", "=", "9">>

CmdPortNoise == <<"P", "O", "R", "T", "=", " ", "5", " ", "X", "P", "O", "R", "T", "=", "7", "x", " ", "P", "O", "R", "T", "=", "8">>

ScriptVals ==
  { Str(CmdNodeY), Str(CmdPort4000), Str(CmdNodemon), Str(<<>>),
    Str(CmdLeadingSpace), Str(CmdTab), Str(CmdPort40), Str(Cmd00),
    Str(CmdPortNoise), Str(CmdLowerPort), Num(<<"8", "0", "8", "0">>),
    Num(<<"0">>) }

DistinctNames(es) == \A i, j \in 1..Len(es) : i # j => es[i][1] # es[j][1]

ScriptMaps ==
  {NONE} \cup
  {Some(es) : es \in {es \in SeqsUpTo(ScriptNames \X ScriptVals, MaxScripts) :
                        DistinctNames(es)}}

Manifest(d, dd, s) ==
  JsonObj([dependencies |-> d, devDependencies |-> dd, scripts |-> s])

OneDep(k) == Some([x \in {k} |-> "^1.0.0"])

EntryPool ==
  { <<"a", "p", "p", ".", "p", "y">>, <<"c", "o", "p", "y">>, <<"m", "a", "i", "n", ".", "p", "y", "c">>, RequirementsTxt, <<"i", "n", "d", "e", "x", ".", "j", "s">>,
    DockerfileName }

Listings ==
  {[n \in E |-> Raw] : E \in {E \in SUBSET EntryPool : Cardinality(E) <= MaxEntries}}

\* the directory d with package.json holding c
WithManifest(d, c) ==
  [n \in (DOMAIN d) \cup {PackageJson} |-> IF n = PackageJson THEN c ELSE d[n]]

NameChars == {"A", "b", "7", " ", "!", CapIDot}

MyApp2 == <<"M", "y", " ", "A", "p", "p", "!", "2">>

\* a path segment has at least one character
BaseNames == (SeqsUpTo(NameChars, MaxNameLen) \ {<<>>}) \cup {MyApp2}

EmptyDir == [n \in {} |-> Raw]

(* ---------------------------------------------------------------------- *)
(* State                                                                   *)
(* ---------------------------------------------------------------------- *)
VARIABLES
  argv,          \* process.argv[2]: NONE or Some(path argument)
  cwd,           \* the working directory path.resolve starts from
  dirExists,     \* whether the resolved path exists
  isDir,         \* whether the resolved path is a directory
  dir,           \* the application directory: entry name -> contents
  dir0,          \* the directory as it was when this invocation started
  pc,            \* position of the script
  absolutePath,  \* NONE until resolved
  appType,       \* NONE until detectAppType has returned
  exitCode,      \* -1 while running
  err,           \* "" or the uncaught exception
  run,           \* number of the current invocation
  prev           \* NONE, or the outcome of the previous invocation

vars ==
  <<argv, cwd, dirExists, isDir, dir, dir0, pc, absolutePath, appType, exitCode,
    err, run, prev>>

inputs == <<argv, cwd, dirExists, isDir, dir0, prev>>

Fresh ==
  /\ pc = "start"
  /\ absolutePath = NONE
  /\ appType = NONE
  /\ exitCode = -1
  /\ err = ""
  /\ run = 1
  /\ prev = NONE

\* dependency maps against two small listings
InitDeps ==
  /\ argv = Some(AbsPath(<<MyApp2>>)) /\ cwd = <<>> /\ dirExists = TRUE /\ isDir = TRUE
  /\ \E d \in DepMaps, dd \in DepMaps, l \in {EmptyDir, [n \in {<<"a", "p", "p", ".", "p", "y">>} |-> Raw]} :
       dir = WithManifest(l, Manifest(d, dd, NONE))

\* directory listings against the kinds of package.json
InitListing ==
  /\ argv = Some(AbsPath(<<MyApp2>>)) /\ cwd = <<>> /\ dirExists = TRUE /\ isDir = TRUE
  /\ \E l \in Listings :
       \/ dir = l
       \/ \E c \in {SubDir, BadJson, JsonNull, Manifest(NONE, NONE, NONE),
                    Manifest(OneDep("react"), NONE, NONE),
                    Manifest(NONE, OneDep("express"), NONE)} :
            dir = WithManifest(l, c)

\* scripts against the manifest categories
InitScripts ==
  /\ argv = Some(RelPath(<<>>)) /\ cwd = <<MyApp2>> /\ dirExists = TRUE /\ isDir = TRUE
  /\ \E s \in ScriptMaps, d \in {NONE, OneDep("react"), OneDep("express")} :
       dir = WithManifest(EmptyDir, Manifest(d, NONE, s))

\* path arguments and base names
InitPaths ==
  /\ cwd \in {<<>>, <<<<"h", "o", "m", "e">>>>}
  /\ \/ argv = NONE
     \/ \E b \in BaseNames : argv \in {Some(AbsPath(<<b>>)), Some(RelPath(<<b>>))}
     \/ argv \in {Some(AbsPath(<<>>)), Some(RelPath(<<>>))}
  /\ dirExists \in BOOLEAN
  /\ isDir \in BOOLEAN
  /\ isDir => dirExists
  \* the file-system root always exists and is a directory
  /\ (IsSome(argv) /\ pathResolve(cwd, Get(argv)) = <<>>) => isDir
  /\ IF isDir
       THEN dir \in {EmptyDir, [n \in {RequirementsTxt} |-> Raw],
                     WithManifest(EmptyDir, Manifest(OneDep("express"), NONE, NONE))}
       ELSE dir = EmptyDir

Init == Fresh /\ (InitDeps \/ InitListing \/ InitScripts \/ InitPaths) /\ dir0 = dir

(* ---------------------------------------------------------------------- *)
(* Steps of the script                                                     *)
(* ---------------------------------------------------------------------- *)
Exit(code) == pc' = "exit" /\ exitCode' = code

\* lines 8-14: no argument
ExitNoArg ==
  /\ pc = "start" /\ argv = NONE
  /\ Exit(1)
  /\ UNCHANGED <<inputs, dir, absolutePath, appType, err, run>>

\* lines 17-21: the resolved path does not exist
ExitNoDir ==
  /\ pc = "start" /\ IsSome(argv) /\ ~dirExists
  /\ absolutePath' = Some(pathResolve(cwd, Get(argv)))
  /\ Exit(1)
  /\ UNCHANGED <<inputs, dir, appType, err, run>>

\* lines 8-21 passed
CheckArgs ==
  /\ pc = "start" /\ IsSome(argv) /\ dirExists
  /\ absolutePath' = Some(pathResolve(cwd, Get(argv)))
  /\ pc' = "main"
  /\ UNCHANGED <<inputs, dir, appType, exitCode, err, run>>

\* an uncaught exception ends the process with exit code 1
Uncaught(e) == err' = e /\ Exit(1)

\* line 275
Detect ==
  /\ pc = "main" /\ isDir /\ detectAppType(dir).ok
  /\ appType' = Some(detectAppType(dir).val)
  /\ pc' = "detected"
  /\ UNCHANGED <<inputs, dir, absolutePath, exitCode, err, run>>

DetectThrows ==
  /\ pc = "main" /\ isDir /\ ~detectAppType(dir).ok
  /\ Uncaught(detectAppType(dir).err)
  /\ UNCHANGED <<inputs, dir, absolutePath, appType, run>>

\* lines 26 and 58 when the path is a file: existsSync of package.json under
\* it is false and readdirSync throws
DetectNotDir ==
  /\ pc = "main" /\ ~isDir
  /\ Uncaught("ENOTDIR")
  /\ UNCHANGED <<inputs, dir, absolutePath, appType, run>>

\* variant: an existing file is not overwritten
writeFile_keepExisting(d, name, content) ==
  [n \in (DOMAIN d) \cup {name} |->
     IF n \in DOMAIN d THEN d[n] ELSE DocFile(content)]

\* variant: the content is appended to a document already there
writeFile_append(d, name, content) ==
  [n \in (DOMAIN d) \cup {name} |->
     IF n # name THEN d[n]
     ELSE IF name \in DOMAIN d /\ d[name].k = "doc"
       THEN DocFile(d[name].doc \o content)
     ELSE DocFile(content)]

\* fs.writeFileSync(path.join(absolutePath, name), content)
writeFile(d, name, content) ==
  [n \in (DOMAIN d) \cup {name} |-> IF n = name THEN DocFile(content) ELSE d[n]]

\* lines 279-284
WriteDockerfile ==
  /\ pc = "detected" /\ generateDockerfile(Get(appType)).ok
  /\ dir' = writeFile(dir, DockerfileName, generateDockerfile(Get(appType)).val)
  /\ pc' = "dockerfile"
  /\ UNCHANGED <<inputs, absolutePath, appType, exitCode, err, run>>

DockerfileThrows ==
  /\ pc = "detected" /\ ~generateDockerfile(Get(appType)).ok
  /\ Uncaught(generateDockerfile(Get(appType)).err)
  /\ UNCHANGED <<inputs, dir, absolutePath, appType, run>>

\* lines 287-292
WriteDockerignore ==
  /\ pc = "dockerfile"
  /\ dir' = writeFile(dir, DockerignoreName, generateDockerignore(Get(appType)))
  /\ pc' = "dockerignore"
  /\ UNCHANGED <<inputs, absolutePath, appType, exitCode, err, run>>

\* lines 320-330: the script ends, exit code 0
WriteDockerCompose ==
  /\ pc = "dockerignore"
  /\ dir' = writeFile(dir, ComposeName,
                      generateDockerCompose(Get(appType), Get(absolutePath)))
  /\ Exit(0)
  /\ UNCHANGED <<inputs, absolutePath, appType, err, run>>

\* the tool is invoked again with the same argument; a new process starts
\* with none of the previous one's variables
Rerun ==
  /\ pc = "exit" /\ run < MaxRuns
  /\ pc' = "start"
  /\ absolutePath' = NONE /\ appType' = NONE /\ exitCode' = -1 /\ err' = ""
  /\ run' = run + 1
  /\ dir0' = dir
  /\ prev' = Some([appType |-> appType, exitCode |-> exitCode])
  /\ UNCHANGED <<argv, cwd, dirExists, isDir, dir>>

Next ==
  \/ ExitNoArg \/ ExitNoDir \/ CheckArgs
  \/ Detect \/ DetectThrows \/ DetectNotDir
  \/ WriteDockerfile \/ DockerfileThrows
  \/ WriteDockerignore \/ WriteDockerCompose
  \/ Rerun

Spec == Init /\ [][Next]_vars

(* ---------------------------------------------------------------------- *)
(* Vocabulary of the properties                                            *)
(* ---------------------------------------------------------------------- *)
\* detectAppType has been called in this invocation
Attempted == pc \notin {"start", "main"} /\ IsSome(argv) /\ isDir

HasManifest == PackageJson \in DOMAIN dir0

\* the manifest parses to a key-value document
WellFormed == HasManifest /\ dir0[PackageJson].k = "json"

\* the manifest is not valid JSON, or is not a key-value document
NotWellFormed == HasManifest /\ dir0[PackageJson].k \in {"badjson", "jsonnull"}

Pj == dir0[PackageJson].v

KeyIn(o, k) == IsSome(o) /\ k \in DOMAIN Get(o)

ReactKeyPresent ==
  KeyIn(Pj.dependencies, "react") \/ KeyIn(Pj.devDependencies, "react")

HasPySuffix(n) ==
  Len(n) >= 3 /\ n[Len(n) - 2] = "." /\ n[Len(n) - 1] = "p" /\ n[Len(n)] = "y"

PythonEvidence ==
  (\E n \in DOMAIN dir0 : HasPySuffix(n)) \/ RequirementsTxt \in DOMAIN dir0

Category == Get(appType).type

\* the build file has been written in this invocation
BuildFileWritten ==
  pc \in {"dockerfile", "dockerignore"} \/ (pc = "exit" /\ exitCode = 0)

\* all three files have been written in this invocation
ComposeWritten == pc = "exit" /\ exitCode = 0

\* the substituted characters of the line of doc that starts with prefix
LineParam(doc, prefix) ==
  doc[CHOOSE i \in 1..Len(doc) : doc[i][1] = prefix][2]

BuildFile == dir[DockerfileName].doc

ComposeFile == dir[ComposeName].doc

(* ---------------------------------------------------------------------- *)
(* C1                                                                      *)
(* ---------------------------------------------------------------------- *)
\* C1: whenever the manifest is well-formed and the key react is present in
\* dependencies or devDependencies, whatever its value, classification
\* returns React.
C1_ReactKeyIsReact ==
  (Attempted /\ WellFormed /\ ReactKeyPresent)
    => (IsSome(appType) /\ Category = "react")

(* ---------------------------------------------------------------------- *)
(* C2                                                                      *)
(* ---------------------------------------------------------------------- *)
\* C2: whenever the manifest is well-formed and has no react key,
\* classification returns NodeGeneric, with or without a framework key and
\* with or without the dependency maps.
C2_NoReactIsNode ==
  (Attempted /\ WellFormed /\ ~ReactKeyPresent)
    => (IsSome(appType) /\ Category = "node")

C2_Witness ==
  /\ pc = "detected" /\ WellFormed
  /\ Pj.dependencies = NONE /\ Pj.devDependencies = NONE
  /\ Category = "node"

(* ---------------------------------------------------------------------- *)
(* C3                                                                      *)
(* ---------------------------------------------------------------------- *)
\* C3: without a manifest, classification returns Python exactly when an
\* entry of the listing ends in .py or requirements.txt exists.
C3_PythonIffEvidence ==
  (Attempted /\ ~HasManifest)
    => (IsSome(appType) /\ (Category = "python" <=> PythonEvidence))

C3_Witness ==
  /\ pc = "detected" /\ ~HasManifest
  /\ RequirementsTxt \notin DOMAIN dir0
  /\ \E n \in DOMAIN dir0 : HasPySuffix(n)
  /\ \E n \in DOMAIN dir0 : ~HasPySuffix(n)
  /\ Category = "python"

(* ---------------------------------------------------------------------- *)
(* C4                                                                      *)
(* ---------------------------------------------------------------------- *)
\* C4: a completed classification is one of the four categories, and it is
\* Generic exactly when there is no manifest, no .py entry and no
\* requirements.txt.
C4_OneCategory ==
  IsSome(appType) =>
    /\ Category \in {"react", "node", "python", "generic"}
    /\ Category = "generic" <=> (~HasManifest /\ ~PythonEvidence)

C4_Witness ==
  /\ pc = "detected" /\ Category = "generic" /\ DOMAIN dir0 # {}

(* ---------------------------------------------------------------------- *)
(* C5                                                                      *)
(* ---------------------------------------------------------------------- *)
\* C5: a directory that contains a manifest is never classified Python or
\* Generic, whatever else it contains.
C5_ManifestFirst ==
  (HasManifest /\ IsSome(appType)) => Category \notin {"python", "generic"}

C5_Witness ==
  /\ pc = "detected" /\ HasManifest /\ PythonEvidence
  /\ Category \in {"react", "node"}

RECURSIVE TakeDigits(_)
TakeDigits(s) ==
  IF s = <<>> \/ Head(s) \notin Digit THEN <<>>
  ELSE <<Head(s)>> \o TakeDigits(Tail(s))

\* left-to-right scan of one command string for PORT=<digits>
RECURSIVE ScanPort(_)
ScanPort(s) ==
  IF Len(s) < 6 THEN NONE
  ELSE IF /\ s[1] = "P" /\ s[2] = "O" /\ s[3] = "R" /\ s[4] = "T" /\ s[5] = "="
          /\ s[6] \in Digit
    THEN Some(TakeDigits(SubSeq(s, 6, Len(s))))
  ELSE ScanPort(Tail(s))

\* the first script, in manifest order, whose command string holds a port
RECURSIVE FirstPort(_)
FirstPort(entries) ==
  IF entries = <<>> THEN NONE
  ELSE IF entries[1][2].t = "str" /\ IsSome(ScanPort(entries[1][2].s))
    THEN ScanPort(entries[1][2].s)
  ELSE FirstPort(Tail(entries))

ExpectedNodePort ==
  IF IsSome(Pj.scripts) /\ IsSome(FirstPort(Get(Pj.scripts)))
    THEN Get(FirstPort(Get(Pj.scripts)))
    ELSE <<"3", "0", "0", "0">>

\* C7: the port exposed by a NodeGeneric build file is the digits of the
\* first PORT=<digits> found in the script commands, whether or not a start
\* script exists, and 3000 when there is none.
C7_NodePort ==
  (BuildFileWritten /\ Category = "node")
    => LineParam(BuildFile, "EXPOSE ") = ExpectedNodePort

C7_Witness ==
  /\ BuildFileWritten /\ Category = "node"
  /\ IsSome(Pj.scripts)
  /\ \A i \in 1..Len(Get(Pj.scripts)) : Get(Pj.scripts)[i][1] # "start"
  /\ LineParam(BuildFile, "EXPOSE ") = <<"4", "0", "0", "0">>

(* ---------------------------------------------------------------------- *)
(* C8                                                                      *)
(* ---------------------------------------------------------------------- *)
Whitespace == {" ", "\t"}

RECURSIVE UpToWhitespace(_)
UpToWhitespace(s) ==
  IF s = <<>> \/ Head(s) \in Whitespace THEN <<>>
  ELSE <<Head(s)>> \o UpToWhitespace(Tail(s))

\* the first whitespace-delimited token of a command line
RECURSIVE FirstWsToken(_)
FirstWsToken(s) ==
  IF s # <<>> /\ Head(s) \in Whitespace THEN FirstWsToken(Tail(s))
  ELSE UpToWhitespace(s)

RECURSIVE UpToSpace(_)
UpToSpace(s) ==
  IF s = <<>> \/ Head(s) = " " THEN <<>>
  ELSE <<Head(s)>> \o UpToSpace(Tail(s))

ScriptEntry(name) ==
  Get(Pj.scripts)[CHOOSE i \in 1..Len(Get(Pj.scripts)) : Get(Pj.scripts)[i][1] = name][2]

ScriptPresent(name) ==
  IsSome(Pj.scripts) /\ \E i \in 1..Len(Get(Pj.scripts)) : Get(Pj.scripts)[i][1] = name

Falsy(v) == (v.t = "str" /\ v.s = <<>>) \/ (v.t = "num" /\ v.s = <<"0">>)

TokenScript == IF Category = "react" THEN "build" ELSE "start"

TokenDefault ==
  IF Category = "react"
    THEN <<"r", "e", "a", "c", "t", "-", "s", "c", "r", "i", "p", "t", "s", " ",
           "b", "u", "i", "l", "d">>
    ELSE <<"n", "o", "d", "e", " ", "s", "e", "r", "v", "e", "r", ".", "j", "s">>

\* the token written into the build file
CommandToken ==
  IF Category = "react" THEN LineParam(BuildFile, "RUN npm run ")
  ELSE LineParam(BuildFile, "CMD [\"npm\", \"run\", \"")

\* the script the token is taken from: the manifest's, or the default when
\* it is absent or falsy
ResolvedScript ==
  IF ScriptPresent(TokenScript) /\ ~Falsy(ScriptEntry(TokenScript))
    THEN ScriptEntry(TokenScript).s ELSE TokenDefault

BaseName == basename(Get(absolutePath))

ServiceName == ComposeFile[3][2]

IsUpper(c) == \E i \in 1..26 : UpperAZ[i] = c

IsLowerOrDigit(c) == (\E i \in 1..26 : LowerAZ[i] = c) \/ c \in Digit

SmallOf(c) == LowerAZ[CHOOSE i \in 1..26 : UpperAZ[i] = c]

\* one character of the base name to one character of the service name
OneToOne(c) ==
  IF IsUpper(c) THEN SmallOf(c) ELSE IF IsLowerOrDigit(c) THEN c ELSE "-"

\* the same, U+0130 giving the two characters "i-"
RECURSIVE ExpectedServiceName(_)
ExpectedServiceName(b) ==
  IF b = <<>> THEN <<>>
  ELSE (IF Head(b) = CapIDot THEN <<"i", "-">> ELSE <<OneToOne(Head(b))>>)
         \o ExpectedServiceName(Tail(b))

\* C9 as stated: the service name has the length of the base name, each
\* character lower-cased and, outside [a-z0-9], replaced by one "-".
C9_SameLength ==
  ComposeWritten =>
    /\ Len(ServiceName) = Len(BaseName)
    /\ \A i \in 1..Len(BaseName) : ServiceName[i] = OneToOne(BaseName[i])

\* C9 amended: the service name is the lower-cased base name with every
\* code unit outside [a-z0-9] replaced by one "-", runs not collapsed; it has
\* the length of the lower-cased name, one more than the base name for each
\* U+0130 in it; My App!2 gives my-app-2.
C9_ServiceName ==
  ComposeWritten =>
    /\ ServiceName = ExpectedServiceName(BaseName)
    /\ Len(ServiceName) =
         Len(BaseName) + Cardinality({i \in 1..Len(BaseName) : BaseName[i] = CapIDot})
    /\ BaseName = MyApp2 => ServiceName = <<"m", "y", "-", "a", "p", "p", "-", "2">>

C9_Witness ==
  /\ ComposeWritten /\ BaseName = MyApp2
  /\ ServiceName = <<"m", "y", "-", "a", "p", "p", "-", "2">>

(* ---------------------------------------------------------------------- *)
(* C11                                                                     *)
(* ---------------------------------------------------------------------- *)
\* C11: when the argument is missing or the path is not an existing
\* directory, the run ends with a non-zero exit code before classification
\* starts and writes no file.
C11_ExitBeforeClassification ==
  (pc # "start" /\ (argv = NONE \/ ~isDir)) =>
    /\ pc = "exit" /\ exitCode > 0
    /\ err = ""
    /\ dir = dir0

(* ---------------------------------------------------------------------- *)
(* C12                                                                     *)
(* ---------------------------------------------------------------------- *)
ExposedPort == LineParam(BuildFile, "EXPOSE ")

\* both sides of the port mapping of the compose file, and what is between
MappedPorts == LineParam(ComposeFile, "      - \"")

\* C12: both sides of the compose port mapping are the port the build file
\* exposes for the same result.
C12_ComposePortIsExposedPort ==
  (ComposeWritten /\ Category \in {"react", "node", "python"}) =>
    MappedPorts = ExposedPort \o <<":">> \o ExposedPort

(* ---------------------------------------------------------------------- *)
(* C13                                                                     *)
(* ---------------------------------------------------------------------- *)
\* C13: once classification has returned, rendering never fails: the run
\* ends with all three documents written.
C13_RenderingNeverFails ==
  (IsSome(appType) /\ pc = "exit") =>
    /\ exitCode = 0 /\ err = ""
    /\ \A n \in OutputNames : n \in DOMAIN dir /\ dir[n].k = "doc"

(* ---------------------------------------------------------------------- *)
(* C14                                                                     *)
(* ---------------------------------------------------------------------- *)
\* the ignore file has been written in this invocation
IgnoreWritten == pc = "dockerignore" \/ ComposeWritten

IgnoreFile == dir[DockerignoreName].doc

Lines(strs) == [i \in 1..Len(strs) |-> <<strs[i], <<>>, "">>]

BaselineLines ==
  Lines(<<"# .dockerignore", ".git", ".gitignore", ".github", ".vscode", ".idea",
          "*.md", "!README.md">>)

NodeLines ==
  Lines(<<"node_modules", "npm-debug.log", "Dockerfile", ".dockerignore", "build",
          "dist", "coverage">>)

\* C14: the ignore file is the fixed baseline followed by the block of the
\* category: the same Node block for React and NodeGeneric, the Python block
\* for Python, nothing for Generic.
C14_IgnoreBlocks ==
  IgnoreWritten =>
    /\ Len(IgnoreFile) >= 8
    /\ SubSeq(IgnoreFile, 1, 8) = BaselineLines
    /\ Category \in {"react", "node"} =>
         SubSeq(IgnoreFile, 9, Len(IgnoreFile)) = NodeLines
    /\ Category = "python" =>
         /\ SubSeq(IgnoreFile, 9, Len(IgnoreFile)) = IgnorePythonBlock
         /\ Len(IgnoreFile) = 30
         /\ IgnoreFile[9] = <<"__pycache__/", <<>>, "">>
         /\ \A i \in 1..Len(IgnoreFile) : IgnoreFile[i] \notin {NodeLines[j] : j \in 1..7}
    /\ Category = "generic" => Len(IgnoreFile) = 8

C14_Witness ==
  /\ IgnoreWritten /\ Category = "react"
  /\ IgnoreFile[9] = <<"node_modules", <<>>, "">>
  /\ Len(IgnoreFile) = 15

(* ---------------------------------------------------------------------- *)
(* C15                                                                     *)
(* ---------------------------------------------------------------------- *)
\* C15: the service name written into the compose file is never empty.
C15_ServiceNameNotEmpty == ComposeWritten => ServiceName # <<>>

(* ---------------------------------------------------------------------- *)
(* C16                                                                     *)
(* ---------------------------------------------------------------------- *)
\* lines that install dependencies, expose or map a port, or start the
\* application, recognised by the literal text they begin with
LivePrefixes ==
  { "EXPOSE ", "RUN npm ci", "RUN npm run ",
    "RUN pip install --no-cache-dir -r requirements.txt",
    "CMD [\"npm\", \"run\", \"", "CMD [\"python\", \"app.py\"]",
    "CMD [\"nginx\", \"-g\", \"daemon off;\"]", "      - \"" }

LiveLine(line) == line[1] \in LivePrefixes

\* C16: for Generic no produced document has a live install, port or start
\* line.
C16_GenericNothingLive ==
  (ComposeWritten /\ Category = "generic") =>
    /\ \A i \in 1..Len(BuildFile) : ~LiveLine(BuildFile[i])
    /\ \A i \in 1..Len(ComposeFile) : ~LiveLine(ComposeFile[i])

(* ---------------------------------------------------------------------- *)
(* C17                                                                     *)
(* ---------------------------------------------------------------------- *)
\* C17: React always exposes 80 and Python always 8000, whatever the
\* scripts and the listing hold; requirements.txt without a manifest gives a
\* Python build file and an ignore file with venv/.
C17_FixedPorts ==
  /\ (BuildFileWritten /\ Category = "react") => ExposedPort = <<"8", "0">>
  /\ (BuildFileWritten /\ Category = "python") => ExposedPort = <<"8", "0", "0", "0">>
  /\ (ComposeWritten /\ ~HasManifest /\ RequirementsTxt \in DOMAIN dir0) =>
       /\ Category = "python"
       /\ ExposedPort = <<"8", "0", "0", "0">>
       /\ \E i \in 1..Len(IgnoreFile) : IgnoreFile[i] = <<"venv/", <<>>, "">>

C17_Witness ==
  /\ BuildFileWritten /\ Category = "react"
  /\ IsSome(Pj.scripts) /\ IsSome(FirstPort(Get(Pj.scripts)))
  /\ ExposedPort = <<"8", "0">>

(* ---------------------------------------------------------------------- *)
(* The PowerShell generator (port-dockerfile-gen.ps1)                      *)
(* ---------------------------------------------------------------------- *)
\* $packageJson.dependencies.key -ne $null: the map exists and holds the key
\* (the modelled version values are strings, never null)
psHasKey(o, key) == IsSome(o) /\ key \in DOMAIN Get(o)

psHasFramework(o) ==
  \/ psHasKey(o, "express") \/ psHasKey(o, "koa")
  \/ psHasKey(o, "hapi") \/ psHasKey(o, "fastify")

\* lines 37-74: $appType for a parsed package.json
psClassifyManifest(packageJson) ==
  LET hasDeps == IsSome(packageJson.dependencies) \/ IsSome(packageJson.devDependencies)
      hasReact == \/ psHasKey(packageJson.dependencies, "react")
                  \/ psHasKey(packageJson.devDependencies, "react")
      hasNodeFramework == \/ psHasFramework(packageJson.dependencies)
                          \/ psHasFramework(packageJson.devDependencies)
  IN  IF hasReact THEN "react"
      ELSE IF hasNodeFramework THEN "node"
      ELSE IF hasDeps THEN "node"
      ELSE "generic"

\* Get-ChildItem -Filter "*.py" -File: the filter ignores case
psPythonFiles(d) ==
  {file \in DOMAIN d : d[file].k # "dir" /\ endsWith(toLowerCase(file), DotPy)}

\* lines 27-83, for a directory without package.json or with one that is a
\* JSON object
psDetectAppType(d) ==
  IF PackageJson \in DOMAIN d
    THEN psClassifyManifest(d[PackageJson].v)
    ELSE IF Cardinality(psPythonFiles(d)) > 0 \/ RequirementsTxt \in DOMAIN d
           THEN "python"
           ELSE "generic"

\* "PORT=(\d+)" under -match, which ignores case
psPortMatchAt(s, i) ==
  /\ i + 5 <= Len(s)
  /\ toLowerCase(SubSeq(s, i, i + 4)) = toLowerCase(PortEq)
  /\ s[i + 5] \in Digit

psPortMatch(s) ==
  IF \E i \in 1..Len(s) : psPortMatchAt(s, i)
    THEN LET i == CHOOSE i \in 1..Len(s) :
                    /\ psPortMatchAt(s, i)
                    /\ \A j \in 1..(i - 1) : ~psPortMatchAt(s, j)
             e == CHOOSE e \in (i + 5)..Len(s) :
                    /\ \A k \in (i + 5)..e : s[k] \in Digit
                    /\ (e = Len(s) \/ s[e + 1] \notin Digit)
         IN  Some(SubSeq(s, i + 5, e))
    ELSE NONE

\* $packageJson.scripts | Out-String: the values in property order, each on
\* its own line of the formatted object
psOutString(entries) == join(scriptValues(entries), <<"\n">>)

\* lines 142-153: $port of the node Dockerfile
psNodePort(packageJson) ==
  IF IsSome(packageJson.scripts) /\ IsSome(scriptProp(packageJson.scripts, "start"))
    THEN LET m == psPortMatch(psOutString(Get(packageJson.scripts)))
         IN  IF IsSome(m) THEN Get(m) ELSE DefaultPort
    ELSE DefaultPort

(* ---------------------------------------------------------------------- *)
(* C18                                                                     *)
(* ---------------------------------------------------------------------- *)
\* C18: for every listing and every well-formed manifest the PowerShell
\* generator gives the category, and for NodeGeneric the exposed port, that
\* the Node.js generator gives.
C18_SameAsPowerShell ==
  (Attempted /\ IsSome(appType) /\ (~HasManifest \/ WellFormed)) =>
    /\ psDetectAppType(dir0) = Category
    /\ (BuildFileWritten /\ Category = "node") => psNodePort(Pj) = ExposedPort

(* ---------------------------------------------------------------------- *)
(* C19                                                                     *)
(* ---------------------------------------------------------------------- *)
ThreeNames ==
  { <<"D", "o", "c", "k", "e", "r", "f", "i", "l", "e">>,
    <<".", "d", "o", "c", "k", "e", "r", "i", "g", "n", "o", "r", "e">>,
    <<"d", "o", "c", "k", "e", "r", "-", "c", "o", "m", "p", "o", "s", "e", ".",
      "y", "m", "l">> }

\* C19: a successful run leaves the directory with exactly the three files
\* added or overwritten, each the rendering of the one classification
\* result, and every other entry as it was.
C19_ThreeFilesOnly ==
  ComposeWritten =>
    /\ DOMAIN dir = (DOMAIN dir0) \cup ThreeNames
    /\ \A n \in (DOMAIN dir0) \ ThreeNames : dir[n] = dir0[n]
    /\ \A n \in ThreeNames : dir[n].k = "doc"
    /\ BuildFile = generateDockerfile(Get(appType)).val
    /\ IgnoreFile = generateDockerignore(Get(appType))
    /\ ComposeFile = generateDockerCompose(Get(appType), Get(absolutePath))

C19_Witness ==
  /\ ComposeWritten /\ run = 1
  /\ HasManifest
  /\ DockerfileName \in DOMAIN dir0 /\ dir0[DockerfileName].k = "raw"
  /\ Cardinality(DOMAIN dir) = 5

(* ---------------------------------------------------------------------- *)
(* C20                                                                     *)
(* ---------------------------------------------------------------------- *)
\* the previous invocation wrote its three files
PrevSucceeded == IsSome(prev) /\ Get(prev).exitCode = 0

\* C20: an invocation that follows a successful one on the same directory
\* succeeds too, detects the same category and leaves the three files, and
\* the whole directory, as the first left them.
C20_RerunStable ==
  (PrevSucceeded /\ pc = "exit") =>
    /\ exitCode = 0
    /\ appType = Get(prev).appType
    /\ \A n \in ThreeNames : n \in DOMAIN dir /\ dir[n] = dir0[n]
    /\ dir = dir0

C20_Witness ==
  /\ PrevSucceeded /\ ComposeWritten /\ run = 2
  /\ Category = "generic"
  /\ DOMAIN dir0 = ThreeNames

====
